---- MODULE Spec2Model ----
(***************************************************************************)
(* Model of python/generate_alt_text.py: the alt-text pipeline.            *)
(*                                                                         *)
(* A text is a sequence of one-character strings.  Offsets are 0-based as  *)
(* in Python: the character at offset i of t is t[i + 1], and the slice    *)
(* t[a:b] is Slice(t, a, b).  The four regular expressions of the script   *)
(* are evaluated character by character, so that match positions, match   *)
(* lengths and the lengths of the replacement texts are those of the code. *)
(***************************************************************************)
EXTENDS Integers, Sequences, FiniteSets, TLC

\* ------------------------------------------------------------------ bounds
\* Largest number of pieces an input document is built from.
MaxImages == 3
\* Number of runs of main() a behaviour goes through.
MaxRuns == 2
\* Number of documents the glob finds.
NumDocs == 2

\* ------------------------------------------------------------------- texts
None == [none |-> TRUE]

\* The content of a file that is not there: no text, a text being a sequence of
\* characters.
NoFile == << "no file" >>

\* The report file with these rows written to it.
ReportOf(rows) == [rows |-> rows]

\* Python's t[a:b] for 0 <= a, b.
Slice(t, a, b) == IF a >= b \/ a >= Len(t) THEN << >> ELSE SubSeq(t, a + 1, IF b > Len(t) THEN Len(t) ELSE b)

\* Python's t[a:].
SliceFrom(t, a) == Slice(t, a, Len(t))

UpperCase == << "A", "B", "C", "D", "E", "F", "G", "H", "I", "J", "K", "L", "M",
               "N", "O", "P", "Q", "R", "S", "T", "U", "V", "W", "X", "Y", "Z" >>
LowerCase == << "a", "b", "c", "d", "e", "f", "g", "h", "i", "j", "k", "l", "m",
               "n", "o", "p", "q", "r", "s", "t", "u", "v", "w", "x", "y", "z" >>
Digits == {"0", "1", "2", "3", "4", "5", "6", "7", "8", "9"}

\* Case folding of re.I.
Fold(c) == IF \E k \in 1..Len(UpperCase) : UpperCase[k] = c
           THEN LowerCase[CHOOSE k \in 1..Len(UpperCase) : UpperCase[k] = c]
           ELSE c

\* The characters \w matches.
WordChars == {UpperCase[k] : k \in 1..Len(UpperCase)} \cup {LowerCase[k] : k \in 1..Len(LowerCase)}
             \cup Digits \cup {"_"}

\* The literal p occurs in t at offset i.
LitAt(t, i, p) == /\ i + Len(p) <= Len(t)
                  /\ \A k \in 1..Len(p) : t[i + k] = p[k]

\* The literal p occurs in t at offset i, ignoring case (re.I).
LitAtCI(t, i, p) == /\ i + Len(p) <= Len(t)
                    /\ \A k \in 1..Len(p) : Fold(t[i + k]) = Fold(p[k])

\* str.startswith
StartsWith(t, p) == LitAt(t, 0, p)

\* End offset of the longest run, from offset i, of characters outside Stop:
\* what a greedy negated class [^...]* consumes.
RECURSIVE RunEnd(_, _, _)
RunEnd(t, i, Stop) == IF i >= Len(t) \/ t[i + 1] \in Stop THEN i ELSE RunEnd(t, i + 1, Stop)

\* End offset of the longest run, from offset i, of characters inside Keep (\s+).
RECURSIVE SkipRun(_, _, _)
SkipRun(t, i, Keep) == IF i >= Len(t) \/ t[i + 1] \notin Keep THEN i ELSE SkipRun(t, i + 1, Keep)

\* ------------------------------------------------------ regular expressions
\* MD_IMG_RE.match at offset i:  !\[([^\]]*)\]\(([^) ]+)(?:\s+"[^"]*")?\)
\* Each class excludes the character that must follow it, so the greedy runs
\* are the only way to match and no backtracking is needed.
MdMatchAt(t, i) ==
    IF ~LitAt(t, i, << "!", "[" >>) THEN None
    ELSE LET a0 == i + 2
             a1 == RunEnd(t, a0, {"]"})
         IN IF ~LitAt(t, a1, << "]", "(" >>) THEN None
            ELSE LET s0 == a1 + 2
                     s1 == RunEnd(t, s0, {")", " "})
                     w1 == SkipRun(t, s1, {" "})
                     q1 == RunEnd(t, w1 + 1, {"\""})
                     hit(e) == [start |-> i, end |-> e, alt |-> Slice(t, a0, a1), src |-> Slice(t, s0, s1)]
                 IN IF s1 = s0 THEN None
                    ELSE IF LitAt(t, s1, << ")" >>) THEN hit(s1 + 1)
                    ELSE IF w1 > s1 /\ LitAt(t, w1, << "\"" >>) /\ LitAt(t, q1, << "\"", ")" >>)
                         THEN hit(q1 + 2)
                    ELSE None

\* MD_IMG_RE.search(t, pos): the leftmost match starting at or after pos.
RECURSIVE MdSearch(_, _)
MdSearch(t, pos) ==
    IF pos >= Len(t) THEN None
    ELSE IF MdMatchAt(t, pos) # None THEN MdMatchAt(t, pos)
    ELSE MdSearch(t, pos + 1)

\* MD_IMG_RE.finditer(t): the non-overlapping matches, left to right.
RECURSIVE MdFindIter(_, _)
MdFindIter(t, pos) ==
    LET m == MdSearch(t, pos)
    IN IF m = None THEN << >> ELSE << m >> \o MdFindIter(t, m.end)

\* HTML_IMG_RE.match at offset i:  <img\b[^>]*>  with re.I
HtmlMatchAt(t, i) ==
    IF ~LitAtCI(t, i, << "<", "i", "m", "g" >>) THEN None
    ELSE LET b == i + 4
             e == RunEnd(t, b, {">"})
         IN IF b < Len(t) /\ t[b + 1] \in WordChars THEN None
            ELSE IF e >= Len(t) THEN None
            ELSE [start |-> i, end |-> e + 1, tag |-> Slice(t, i, e + 1)]

\* HTML_IMG_RE.search(t, pos)
RECURSIVE HtmlSearch(_, _)
HtmlSearch(t, pos) ==
    IF pos >= Len(t) THEN None
    ELSE IF HtmlMatchAt(t, pos) # None THEN HtmlMatchAt(t, pos)
    ELSE HtmlSearch(t, pos + 1)

\* HTML_IMG_RE.finditer(t)
RECURSIVE HtmlFindIter(_, _)
HtmlFindIter(t, pos) ==
    LET m == HtmlSearch(t, pos)
    IN IF m = None THEN << >> ELSE << m >> \o HtmlFindIter(t, m.end)

Quotes == {"\"", "'"}

\* name=["']([^"']{least,})["'] matched at offset i, ignoring case: the shape
\* shared by SRC_RE (least = 1) and ALT_RE (least = 0).
AttrMatchAt(t, i, name, least) ==
    IF ~LitAtCI(t, i, name \o << "=" >>) THEN None
    ELSE LET q0 == i + Len(name) + 1
             v0 == q0 + 1
             v1 == RunEnd(t, v0, Quotes)
         IN IF q0 >= Len(t) \/ t[q0 + 1] \notin Quotes THEN None
            ELSE IF v1 >= Len(t) \/ v1 - v0 < least THEN None
            ELSE [start |-> i, end |-> v1 + 1, val |-> Slice(t, v0, v1)]

RECURSIVE AttrSearch(_, _, _, _)
AttrSearch(t, pos, name, least) ==
    IF pos >= Len(t) THEN None
    ELSE IF AttrMatchAt(t, pos, name, least) # None THEN AttrMatchAt(t, pos, name, least)
    ELSE AttrSearch(t, pos + 1, name, least)

\* SRC_RE.search(tag)
SrcSearch(tag) == AttrSearch(tag, 0, << "s", "r", "c" >>, 1)

\* ALT_RE.search(tag)
AltSearch(tag) == AttrSearch(tag, 0, << "a", "l", "t" >>, 0)

\* ALT_RE.sub(repl, tag): every non-overlapping match replaced, left to right.
RECURSIVE AltSubFrom(_, _, _)
AltSubFrom(tag, pos, repl) ==
    LET m == AttrSearch(tag, pos, << "a", "l", "t" >>, 0)
    IN IF m = None THEN SliceFrom(tag, pos)
       ELSE Slice(tag, pos, m.start) \o repl \o AltSubFrom(tag, m.end, repl)

AltSub(repl, tag) == AltSubFrom(tag, 0, repl)

\* str.rstrip('>')
RECURSIVE RStripGt(_)
RStripGt(t) == IF Len(t) > 0 /\ t[Len(t)] = ">" THEN RStripGt(SubSeq(t, 1, Len(t) - 1)) ELSE t

\* ------------------------------------------------------- find_images_in_markdown
\* The references of the Markdown matches: ("md", src, m.start()).
MdRefs(t) == LET ms == MdFindIter(t, 0)
             IN [j \in 1..Len(ms) |-> [kind |-> "md", src |-> ms[j].src, pos |-> ms[j].start]]

\* The references of the <img> tags that have a src attribute, in text order.
RECURSIVE HtmlRefsOf(_)
HtmlRefsOf(ms) ==
    IF ms = << >> THEN << >>
    ELSE LET s == SrcSearch(Head(ms).tag)
         IN (IF s = None THEN << >> ELSE << [kind |-> "html", src |-> s.val, pos |-> Head(ms).start] >>)
            \o HtmlRefsOf(Tail(ms))

HtmlRefs(t) == HtmlRefsOf(HtmlFindIter(t, 0))

\* A variant of find_images_in_markdown whose HTML loop runs first.
find_images_in_markdown_HtmlFirst(t) == HtmlRefs(t) \o MdRefs(t)

\* find_images_in_markdown(text): the Markdown loop appends first, the HTML loop second.
find_images_in_markdown(t) == MdRefs(t) \o HtmlRefs(t)

\* ------------------------------------------------------------ resolve_image_path
\* s.split(c)[0]
BeforeFirst(t, c) == Slice(t, 0, RunEnd(t, 0, {c}))

\* str.lstrip("/")
RECURSIVE LStripSlash(_)
LStripSlash(t) == IF Len(t) > 0 /\ t[1] = "/" THEN LStripSlash(Tail(t)) ELSE t

HttpPrefix == << "h", "t", "t", "p" >>
HttpScheme == HttpPrefix \o << ":", "/", "/" >>
HttpsScheme == HttpPrefix \o << "s", ":", "/", "/" >>

\* A path is the directory it is taken relative to and the name below it.
PathIn(dir, name) == [dir |-> dir, name |-> name]

\* The ordered candidate list of resolve_image_path.
Candidates(p, mdDir) ==
    IF StartsWith(p, << "/" >>)
    THEN << PathIn("static", LStripSlash(p)), PathIn(".", LStripSlash(p)) >>
    ELSE << PathIn(mdDir, p), PathIn("static", p), PathIn(".", p) >>

\* A variant of resolve_image_path that returns the last existing candidate.
resolve_image_path_LastExisting(src, mdDir, fs) ==
    LET p == BeforeFirst(BeforeFirst(src, "?"), "#")
        c == Candidates(p, mdDir)
    IN IF StartsWith(p, HttpScheme) \/ StartsWith(p, HttpsScheme) THEN None
       ELSE IF \E j \in 1..Len(c) : c[j] \in fs
            THEN c[CHOOSE j \in 1..Len(c) : c[j] \in fs /\ \A h \in (j + 1)..Len(c) : c[h] \notin fs]
            ELSE c[1]

\* resolve_image_path(src, md_path), on a file system where the paths of fs exist.
resolve_image_path(src, mdDir, fs) ==
    LET p == BeforeFirst(BeforeFirst(src, "?"), "#")
        c == Candidates(p, mdDir)
    IN IF StartsWith(p, HttpScheme) \/ StartsWith(p, HttpsScheme) THEN None
       ELSE IF \E j \in 1..Len(c) : c[j] \in fs
            THEN c[CHOOSE j \in 1..Len(c) : c[j] \in fs /\ \A h \in 1..(j - 1) : c[h] \notin fs]
            ELSE c[1]

\* -------------------------------------------------------------------- captioning
\* The outcome of a call: a returned text, or a raised exception with its message.
Returned(text) == [raised |-> FALSE, text |-> text]
Raised(msg) == [raised |-> TRUE, text |-> msg]

ShortCaption == << "C" >>
LongCaption == << "a", " ", "b", "i", "g", " ", "c", "a", "t" >>
ErrorMessage == << "t", "i", "m", "e", "o", "u", "t" >>

\* The captioning capability, opaque to the script: what the model answers for
\* the image a file holds.  The image is named by the last character of the
\* file's name: "e" is an image the model fails on, "l" one it describes at length.
Capability(name) ==
    LET img == IF name = << >> THEN "" ELSE name[Len(name)]
    IN IF img = "e" THEN Raised(ErrorMessage)
       ELSE IF img = "l" THEN Returned(LongCaption)
       ELSE Returned(ShortCaption)

\* caption_func(img_path): the local strategy's caption(), built by get_captioner_local.
caption_local(path) == Capability(path.name)

\* caption_via_hf_api(image_path, token): raise_for_status() and the "error"
\* object raise; otherwise the generated text is returned.  name names the
\* image the posted bytes hold.
caption_via_hf_api(name) == Capability(name)

\* requests.get(src) followed by raise_for_status(): a URL that ends in "x" is
\* one the server answers with an error status.
Downloads(src) == src # << >> /\ src[Len(src)] # "x"

\* f"(error: {e})"
ErrorPlaceholder(msg) == << "(", "e", "r", "r", "o", "r", ":", " " >> \o msg \o << ")" >>

\* try: caption = ...  except Exception as e: caption = f"(error: {e})"
Caught(outcome) == IF outcome.raised THEN ErrorPlaceholder(outcome.text) ELSE outcome.text

\* The transient file of tempfile.NamedTemporaryFile.
TempFile == PathIn("tmp", << >>)

\* A call of a captioning strategy: which one, and the file it is given.
CallOf(via, path) == [via |-> via, path |-> path]

\* Lines 160-187 of process_file: the caption of one image, whether the
\* transient file of a downloaded image is still there afterwards, and the
\* call of a captioning strategy that was made, None when none was.
\*   func    caption_func is set (the local strategy)
\*   tok     the credential is set
CaptionOf(src, mdDir, fs, func, tok) ==
    LET img_path == resolve_image_path(src, mdDir, fs)
    IN IF img_path # None /\ img_path \in fs
       THEN [caption |-> IF func THEN Caught(caption_local(img_path))
                         ELSE IF tok THEN Caught(caption_via_hf_api(img_path.name))
                         ELSE << >>,
             leaked |-> 0,
             call |-> IF func THEN CallOf("local", img_path)
                      ELSE IF tok THEN CallOf("api", img_path)
                      ELSE None]
       ELSE IF tok /\ StartsWith(src, HttpPrefix)
            THEN IF ~Downloads(src)
                 THEN [caption |-> ErrorPlaceholder(ErrorMessage), leaked |-> 0, call |-> None]
                 ELSE [caption |-> Caught(caption_via_hf_api(src)),
                       leaked |-> IF caption_via_hf_api(src).raised THEN 1 ELSE 0,
                       call |-> CallOf("api", TempFile)]
            ELSE [caption |-> << >>, leaked |-> 0, call |-> None]

\* ---------------------------------------------------------------------- rewriting
\* f'![{caption}]({src})'
MdImage(caption, src) == << "!", "[" >> \o caption \o << "]", "(" >> \o src \o << ")" >>

\* f'alt="{caption}"'
AltAttr(caption) == << "a", "l", "t", "=", "\"" >> \o caption \o << "\"" >>

\* Mutant of NewTag: the alt is appended without a look for an existing one.
NewTag_AlwaysAppend(tag, caption) == RStripGt(tag) \o << " " >> \o AltAttr(caption) \o << ">" >>

\* Lines 196-201: the tag with its alt replaced, or with an alt appended.
NewTag(tag, caption) ==
    IF AltSearch(tag) # None THEN AltSub(AltAttr(caption), tag)
    ELSE RStripGt(tag) \o << " " >> \o AltAttr(caption) \o << ">" >>

\* Lines 146-157: the match the loop works on, searched in the current text
\* from the offset find_images_in_markdown recorded.
LocateRef(t, ref) == IF ref.kind = "md" THEN MdSearch(t, ref.pos) ELSE HtmlSearch(t, ref.pos)

\* Lines 150 and 155-157: the alt text of the located match.
OldAlt(ref, m) ==
    IF ref.kind = "md" THEN m.alt
    ELSE IF AltSearch(m.tag) # None THEN AltSearch(m.tag).val ELSE << >>

\* A variant of the edit that leaves alone an image whose caption is the
\* placeholder of a failed call.
ApplyEdit_SkipErrors(t, ref, m, caption) ==
    IF StartsWith(caption, << "(", "e", "r", "r", "o", "r", ":" >>) THEN t
    ELSE IF ref.kind = "md" THEN Slice(t, 0, m.start) \o MdImage(caption, ref.src) \o SliceFrom(t, m.end)
    ELSE Slice(t, 0, m.start) \o NewTag(m.tag, caption) \o SliceFrom(t, m.end)

\* Lines 192-202: the text after the edit of one located match.
ApplyEdit(t, ref, m, caption) ==
    IF ref.kind = "md" THEN Slice(t, 0, m.start) \o MdImage(caption, ref.src) \o SliceFrom(t, m.end)
    ELSE Slice(t, 0, m.start) \o NewTag(m.tag, caption) \o SliceFrom(t, m.end)

\* ------------------------------------------------------------------------ inputs
\* The pieces input documents are built from, joined by single spaces.
TitledMd == MdImage(<< "a", "n", " ", "o", "l", "d", " ", "a", "l", "t" >>, << "s" >>)
Pieces == <<
    \* ![an old alt](s "t")
    SubSeq(TitledMd, 1, Len(TitledMd) - 1) \o << " ", "\"", "t", "\"", ")" >>,
    \* ![a](m)            an image no candidate path holds
    MdImage(<< "a" >>, << "m" >>),
    \* <img src="e">      an image the capability fails on
    << "<", "i", "m", "g", " ", "s", "r", "c", "=", "\"", "e", "\"", ">" >>,
    \* <IMG src="s" ALT='C'>
    << "<", "I", "M", "G", " ", "s", "r", "c", "=", "\"", "s", "\"", " ", "A", "L", "T", "=", "'", "C", "'", ">" >>,
    \* ![a](http://e)     a remote image the endpoint fails on
    MdImage(<< "a" >>, HttpScheme \o << "e" >>),
    \* <img alt="x">      a tag without src
    << "<", "i", "m", "g", " ", "a", "l", "t", "=", "\"", "x", "\"", ">" >> >>

RECURSIVE Join(_)
Join(ps) == IF ps = << >> THEN << >>
            ELSE IF Len(ps) = 1 THEN Pieces[ps[1]]
            ELSE Pieces[ps[1]] \o << " " >> \o Join(Tail(ps))

\* The input documents: up to MaxImages different pieces, in any order.
Docs == {Join(ps) : ps \in {q \in UNION {[1..n -> 1..Len(Pieces)] : n \in 0..MaxImages} :
                               \A i, j \in DOMAIN q : i # j => q[i] # q[j]}}

\* The documents after the first are this one.
OtherDoc == MdImage(<< "a" >>, << "s" >>)

DocIds == 1..NumDocs

\* The directory of the documents (MD_GLOB).
ContentDir == "content"

\* The image files that exist: "m" is nowhere.
ImageFiles == {PathIn(ContentDir, << "s" >>), PathIn(ContentDir, << "e" >>), PathIn(ContentDir, << "l" >>)}

\* Documents for runs over different file systems and environments: one or two
\* of these images, whose sources are relative, root-relative, with a query
\* and a fragment, failing, and remote.
EnvPieces == <<
    MdImage(<< "a" >>, << "s" >>),
    MdImage(<< "a" >>, << "/", "s" >>),
    \* <img src="s?v#f">
    << "<", "i", "m", "g", " ", "s", "r", "c", "=", "\"", "s", "?", "v", "#", "f", "\"", ">" >>,
    MdImage(<< "a" >>, << "e" >>),
    MdImage(<< "a" >>, HttpScheme \o << "e" >>) >>

EnvDocs == {EnvPieces[i] : i \in DOMAIN EnvPieces}
           \cup {EnvPieces[q[1]] \o << " " >> \o EnvPieces[q[2]] :
                    q \in {r \in (DOMAIN EnvPieces) \X (DOMAIN EnvPieces) : r[1] < r[2]}}

\* The places the image "s" can be in: any of the document's directory, the
\* static-assets root and the working directory, or none. "e" is with the
\* documents.
FileSystems == {fs \cup {PathIn(ContentDir, << "e" >>)} :
                   fs \in SUBSET {PathIn(ContentDir, << "s" >>), PathIn("static", << "s" >>),
                                  PathIn(".", << "s" >>)}}

\* ------------------------------------------------------------------------- state
VARIABLES
    store,       \* the content of each document file
    baks,        \* the content of each backup file, NoFile when there is none
    files,       \* the image files that exist
    temps,       \* the number of transient files that exist
    token,       \* HF_API_TOKEN is set
    localAvail,  \* get_captioner_local() can build the local strategy
    pc,          \* where main / process_file stands
    apply,       \* args.apply
    captionFunc, \* main's caption_func is not None
    cur,         \* the document main's loop is at
    txt,         \* process_file's txt
    images,      \* process_file's images
    k,           \* the index of the loop of process_file in images
    changes,     \* process_file's changes
    allChanges,  \* main's all_changes
    report,      \* the report file, None before it is written
    runs,        \* the number of runs of main completed
    startText,   \* history: the text process_file read at line 141
    runStore,    \* history: store when the current run started
    runBaks,     \* history: baks when the current run started
    lastRun,     \* history: apply, input and report of the run before the current one
    calls,       \* history: the calls of a captioning strategy made for the current document
    changedFrom  \* history: per document, its content at the start of the last run that changed it

vars == << store, baks, files, temps, token, localAvail, pc, apply, captionFunc, cur, txt,
           images, k, changes, allChanges, report, runs, startText, runStore, runBaks, lastRun,
           calls, changedFrom >>

\* The state before the first run, but for the documents, the image files and
\* the environment.
InitRest ==
    /\ baks = [i \in DocIds |-> NoFile]
    /\ temps = 0
    /\ pc = "idle"
    /\ apply = FALSE
    /\ captionFunc = FALSE
    /\ cur = 1
    /\ txt = << >>
    /\ images = << >>
    /\ k = 1
    /\ changes = << >>
    /\ allChanges = << >>
    /\ report = None
    /\ runs = 0
    /\ startText = << >>
    /\ runStore = store
    /\ runBaks = baks
    /\ lastRun = None
    /\ calls = << >>
    /\ changedFrom = [i \in DocIds |-> NoFile]

Init ==
    /\ \E d \in Docs : store = [i \in DocIds |-> IF i = 1 THEN d ELSE OtherDoc]
    /\ files = ImageFiles
    /\ \E e \in {<< TRUE, FALSE >>, << FALSE, TRUE >>} :
          token = e[1] /\ localAvail = e[2]
    /\ InitRest

\* The runs over any of the file systems, with and without the credential, with
\* and without a local model that can be built.
InitEnv ==
    /\ \E d \in EnvDocs : store = [i \in DocIds |-> IF i = 1 THEN d ELSE OtherDoc]
    /\ files \in FileSystems
    /\ token \in BOOLEAN
    /\ localAvail \in BOOLEAN
    /\ InitRest

env == << files, token, localAvail >>
hist == << runStore, runBaks, lastRun >>
fileLocals == << txt, images, k, changes, startText, calls >>

\* A variant of the start of a run that builds the local strategy whether or not
\* the credential is set.
Main_Start_LocalAlways ==
    /\ pc = "idle"
    /\ runs < MaxRuns
    /\ \E a \in BOOLEAN : apply' = a
    /\ captionFunc' = localAvail
    /\ allChanges' = << >>
    /\ cur' = 1
    /\ pc' = "read"
    /\ runStore' = store
    /\ runBaks' = baks
    /\ lastRun' = IF runs = 0 THEN None
                  ELSE [apply |-> apply, input |-> runStore, report |-> report]
    /\ UNCHANGED << store, baks, temps, env, fileLocals, report, runs, changedFrom >>

\* main, lines 212-228: the arguments, the choice of the backend, the glob.
Main_Start ==
    /\ pc = "idle"
    /\ runs < MaxRuns
    /\ \E a \in BOOLEAN : apply' = a
    /\ captionFunc' = (~token /\ localAvail)
    /\ allChanges' = << >>
    /\ cur' = 1
    /\ pc' = "read"
    /\ runStore' = store
    /\ runBaks' = baks
    /\ lastRun' = IF runs = 0 THEN None
                  ELSE [apply |-> apply, input |-> runStore, report |-> report]
    /\ UNCHANGED << store, baks, temps, env, fileLocals, report, runs, changedFrom >>

\* process_file, lines 141-143.
ProcessFile_Read ==
    /\ pc = "read"
    /\ txt' = store[cur]
    /\ images' = find_images_in_markdown(store[cur])
    /\ changes' = << >>
    /\ k' = 1
    /\ startText' = store[cur]
    /\ calls' = << >>
    /\ pc' = "loop"
    /\ UNCHANGED << store, baks, temps, env, apply, captionFunc, cur, allChanges, report, runs, hist,
                    changedFrom >>

\* A variant of the loop iteration without the except clauses: when the
\* captioning call or the download raises, the run ends there.
ProcessFile_Image_Uncaught ==
    /\ pc = "loop"
    /\ k <= Len(images)
    /\ LET ref == images[k]
           m == LocateRef(txt, ref)
           c == CaptionOf(ref.src, ContentDir, files, captionFunc, token)
       IN IF m = None
          THEN k' = k + 1 /\ UNCHANGED << pc, txt, changes, temps, calls >>
          ELSE IF c.caption = ErrorPlaceholder(ErrorMessage)
          THEN pc' = "failed" /\ UNCHANGED << k, txt, changes, temps, calls >>
          ELSE /\ changes' = Append(changes, [path |-> cur, kind |-> ref.kind, src |-> ref.src,
                                              old_alt |-> OldAlt(ref, m), caption |-> c.caption])
               /\ txt' = IF apply /\ c.caption # << >> THEN ApplyEdit(txt, ref, m, c.caption) ELSE txt
               /\ temps' = temps + c.leaked
               /\ calls' = IF c.call = None THEN calls ELSE Append(calls, c.call)
               /\ k' = k + 1 /\ pc' = pc
    /\ UNCHANGED << store, baks, env, apply, captionFunc, cur, images, allChanges, report, runs,
                    startText, hist, changedFrom >>

\* process_file, lines 144-202: one iteration of the loop over images.
ProcessFile_Image ==
    /\ pc = "loop"
    /\ k <= Len(images)
    /\ LET ref == images[k]
           m == LocateRef(txt, ref)
           c == CaptionOf(ref.src, ContentDir, files, captionFunc, token)
       IN IF m = None
          THEN UNCHANGED << txt, changes, temps, calls >>
          ELSE /\ changes' = Append(changes, [path |-> cur, kind |-> ref.kind, src |-> ref.src,
                                              old_alt |-> OldAlt(ref, m), caption |-> c.caption])
               /\ txt' = IF apply /\ c.caption # << >> THEN ApplyEdit(txt, ref, m, c.caption) ELSE txt
               /\ temps' = temps + c.leaked
               /\ calls' = IF c.call = None THEN calls ELSE Append(calls, c.call)
    /\ k' = k + 1
    /\ UNCHANGED << store, baks, env, pc, apply, captionFunc, cur, images, allChanges, report, runs,
                    startText, hist, changedFrom >>

\* Mutant of MustWrite: the comparison with the stored text is left out.
MustWrite_WheneverApply == apply

\* Line 205: if apply and txt != path.read_text()
MustWrite == apply /\ txt # store[cur]

\* Mutant of ProcessFile_Backup: the backup receives the edited text.
ProcessFile_Backup_OfEditedText ==
    /\ pc = "loop"
    /\ k > Len(images)
    /\ MustWrite
    /\ baks' = [baks EXCEPT ![cur] = txt]
    /\ pc' = "write"
    /\ UNCHANGED << store, temps, env, apply, captionFunc, cur, fileLocals, allChanges, report, runs, hist,
                    changedFrom >>

\* process_file, lines 205-207: the backup is written.
\* A variant of the backup step that leaves a backup that is already there.
ProcessFile_Backup_KeepFirst ==
    /\ pc = "loop" /\ k > Len(images)
    /\ MustWrite
    /\ baks' = IF baks[cur] = NoFile THEN [baks EXCEPT ![cur] = store[cur]] ELSE baks
    /\ pc' = "write"
    /\ UNCHANGED << store, temps, env, apply, captionFunc, cur, fileLocals, allChanges, report, runs, hist,
                    changedFrom >>

\* A variant of the backup step that overwrites the document where
\* process_file writes the backup.
ProcessFile_Backup_DocumentFirst ==
    /\ pc = "loop" /\ k > Len(images)
    /\ MustWrite
    /\ store' = [store EXCEPT ![cur] = txt]
    /\ pc' = "write"
    /\ UNCHANGED << baks, temps, env, apply, captionFunc, cur, fileLocals, allChanges, report, runs, hist,
                    changedFrom >>

ProcessFile_Backup ==
    /\ pc = "loop"
    /\ k > Len(images)
    /\ MustWrite
    /\ baks' = [baks EXCEPT ![cur] = store[cur]]
    /\ pc' = "write"
    /\ UNCHANGED << store, temps, env, apply, captionFunc, cur, fileLocals, allChanges, report, runs, hist,
                    changedFrom >>

\* process_file, line 208: the document is overwritten.
ProcessFile_Write ==
    /\ pc = "write"
    /\ store' = [store EXCEPT ![cur] = txt]
    /\ changedFrom' = [changedFrom EXCEPT ![cur] = runStore[cur]]
    /\ pc' = "written"
    /\ UNCHANGED << baks, temps, env, apply, captionFunc, cur, fileLocals, allChanges, report, runs, hist >>

\* process_file, line 209, and main, lines 229-231: the changes are returned
\* and collected, and the loop goes to the next document.
ProcessFile_Return ==
    /\ \/ pc = "written"
       \/ pc = "loop" /\ k > Len(images) /\ ~MustWrite
    /\ allChanges' = allChanges \o changes
    /\ IF cur < NumDocs THEN cur' = cur + 1 /\ pc' = "read"
                        ELSE cur' = cur /\ pc' = "report"
    /\ UNCHANGED << store, baks, temps, env, apply, captionFunc, fileLocals, report, runs, hist,
                    changedFrom >>

\* main, lines 233-243: the report is written and the run ends.
Main_Report ==
    /\ pc = "report"
    /\ report' = ReportOf(allChanges)
    /\ runs' = runs + 1
    /\ pc' = "idle"
    /\ UNCHANGED << store, baks, temps, env, apply, captionFunc, cur, fileLocals, allChanges, hist,
                    changedFrom >>

Next ==
    \/ Main_Start
    \/ ProcessFile_Read
    \/ ProcessFile_Image
    \/ ProcessFile_Backup
    \/ ProcessFile_Write
    \/ ProcessFile_Return
    \/ Main_Report

Spec == Init /\ [][Next]_vars

SpecEnv == InitEnv /\ [][Next]_vars

\* Every step changes pc or k.
ctl == << pc, k >>

\* The interpreter executes the next statement of main: a run that has a step
\* to take takes it. This is weak fairness of every step; for the two steps
\* that work on the text, it is written with the condition under which the
\* step can be taken: the document is to be read, an image is left in the loop.
FairSpecEnv ==
    /\ SpecEnv
    /\ WF_ctl(Main_Start)
    /\ []<>(pc # "read") \/ []<><<ProcessFile_Read>>_ctl
    /\ []<>(~(pc = "loop" /\ k <= Len(images))) \/ []<><<ProcessFile_Image>>_ctl
    /\ WF_ctl(ProcessFile_Backup)
    /\ WF_ctl(ProcessFile_Write)
    /\ WF_ctl(ProcessFile_Return)
    /\ WF_ctl(Main_Report)

\* ---------------------------------------------------------------------- claims
\* process_file is about to return: the loop is over and nothing is left to write.
FileDone == pc = "written" \/ (pc = "loop" /\ k > Len(images) /\ ~MustWrite)

\* process_file is at work on document cur, so that its locals are those of cur.
InFile == pc \in {"loop", "write", "written"}

\* The caption lines 160-187 give an image of source src in the current run.
CapFor(src) == CaptionOf(src, ContentDir, files, captionFunc, token).caption

\* The text of a match.
Markup(t, m) == Slice(t, m.start, m.end)

\* C1: process_file returns exactly one change record per image reference
\* find_images_in_markdown found in the text it read, the j-th record being that
\* of the j-th reference, in apply mode as in dry-run and whatever the captions.
C1_OneRecordPerImage ==
    FileDone =>
        LET refs == find_images_in_markdown(startText)
        IN /\ Len(changes) = Len(refs)
           /\ \A j \in 1..Len(changes) :
                 changes[j].kind = refs[j].kind /\ changes[j].src = refs[j].src

\* C2: a dry-run and an apply-mode run on the same stored documents, with the
\* same captioning capability, write the same report rows in the same order.
C2_SameReportBothModes ==
    (pc = "idle" /\ lastRun # None /\ lastRun.input = runStore /\ lastRun.apply # apply)
        => report = lastRun.report

\* C3: once the stored document differs from the text process_file read, the
\* backup already holds exactly that text (the backup is written before the
\* document is overwritten), and when process_file returns from a document it
\* changed, the run is an apply-mode run and the document holds the edited text.
C3_BackupBeforeWrite ==
    InFile =>
        /\ (pc = "write" => (baks[cur] = startText /\ store[cur] = startText))
        /\ (store[cur] # startText => baks[cur] = startText)
        /\ ((FileDone /\ store[cur] # startText) => (apply /\ store[cur] = txt))
        /\ ((FileDone /\ apply /\ txt # startText) => (store[cur] = txt /\ baks[cur] = startText))

\* A document changed in apply mode has been written, its backup before it.
C3_Witness ==
    /\ pc = "written" /\ apply
    /\ store[cur] = txt /\ txt # startText
    /\ baks[cur] = startText

\* C4: the document and its backup are written only in apply mode and only
\* when the final text differs from the text read; in a dry-run, for a document
\* without image references and when every caption is empty, the text is the
\* one read, the document file keeps its content and the backup file is neither
\* created nor modified.
C4_WriteOnlyWhenChanged ==
    InFile =>
        /\ ((store[cur] # runStore[cur] \/ baks[cur] # runBaks[cur])
               => (apply /\ txt # startText /\ k > Len(images)))
        /\ ((~apply \/ images = << >> \/ \A j \in 1..Len(changes) : changes[j].caption = << >>)
               => (txt = startText /\ store[cur] = startText /\ baks[cur] = runBaks[cur]))

\* An apply-mode run returns from a document that has images, none of which
\* got a caption: nothing was written.
C4_Witness ==
    /\ FileDone /\ apply
    /\ images # << >> /\ Len(changes) = Len(images)
    /\ \A j \in 1..Len(changes) : changes[j].caption = << >>
    /\ store[cur] = startText /\ baks[cur] = NoFile

\* C5: after an apply-mode pass over a document, the Markdown images of the
\* final text are those of the text read, with the same destinations in the
\* same order, and each one whose caption C is not empty reads ![C](src), its
\* title dropped.
C5_MarkdownRewritten ==
    (FileDone /\ apply) =>
        LET before == MdFindIter(startText, 0)
            after == MdFindIter(txt, 0)
        IN /\ Len(after) = Len(before)
           /\ \A j \in 1..Len(before) :
                 /\ after[j].src = before[j].src
                 /\ CapFor(before[j].src) # << >>
                       => Markup(txt, after[j]) = MdImage(CapFor(before[j].src), before[j].src)

\* C6: after an apply-mode pass over a document, each <img> tag that has a src
\* and whose caption C is not empty has alt value C and the src it had; a tag
\* that had no alt is the old tag with alt="C" put before its closing '>'.
C6_HtmlRewritten ==
    (FileDone /\ apply) =>
        LET before == HtmlFindIter(startText, 0)
            after == HtmlFindIter(txt, 0)
        IN /\ Len(after) = Len(before)
           /\ \A j \in 1..Len(before) :
                 LET old == before[j].tag
                     new == after[j].tag
                 IN (SrcSearch(old) # None /\ CapFor(SrcSearch(old).val) # << >>) =>
                        /\ SrcSearch(new) # None /\ SrcSearch(new).val = SrcSearch(old).val
                        /\ AltSearch(new) # None /\ AltSearch(new).val = CapFor(SrcSearch(old).val)
                        /\ AltSearch(old) = None =>
                              new = SubSeq(old, 1, Len(old) - 1) \o << " " >>
                                    \o AltAttr(CapFor(SrcSearch(old).val)) \o << ">" >>

\* C7: after an apply-mode pass over a document, every image whose own caption
\* is empty has the markup it had in the text read.
C7_UncaptionedUntouched ==
    (FileDone /\ apply) =>
        LET mdBefore == MdFindIter(startText, 0)
            mdAfter == MdFindIter(txt, 0)
            htBefore == HtmlFindIter(startText, 0)
            htAfter == HtmlFindIter(txt, 0)
        IN /\ Len(mdAfter) = Len(mdBefore)
           /\ Len(htAfter) = Len(htBefore)
           /\ \A j \in 1..Len(mdBefore) :
                 CapFor(mdBefore[j].src) = << >>
                     => Markup(txt, mdAfter[j]) = Markup(startText, mdBefore[j])
           /\ \A j \in 1..Len(htBefore) :
                 (SrcSearch(htBefore[j].tag) # None /\ CapFor(SrcSearch(htBefore[j].tag).val) = << >>)
                     => htAfter[j].tag = htBefore[j].tag

\* The captioning call raises for the image of source src.
RaisesFor(src) == CapFor(src) = ErrorPlaceholder(ErrorMessage)

\* The alt text the image of reference ref has in text t, None if the image
\* is not there.
AltOfRef(t, ref) == IF LocateRef(t, ref) = None THEN None ELSE OldAlt(ref, LocateRef(t, ref))

\* C8: when the captioning call raises for an image of a document,
\* process_file still returns a record for every image, the failing one with
\* the (error: <message>) placeholder and every other one with the caption the
\* capability returns for it, and in apply mode the images that succeeded are
\* rewritten.
C8_FailureIsolated ==
    LET refs == find_images_in_markdown(startText)
        final == find_images_in_markdown(txt)
    IN (FileDone /\ \E j \in 1..Len(refs) : RaisesFor(refs[j].src)) =>
          /\ Len(changes) = Len(refs)
          /\ \A j \in 1..Len(changes) :
                /\ changes[j].src = refs[j].src
                /\ changes[j].caption = CapFor(refs[j].src)
          /\ apply =>
                /\ Len(final) = Len(refs)
                /\ \A j \in 1..Len(refs) :
                      (CapFor(refs[j].src) # << >> /\ ~RaisesFor(refs[j].src))
                          => AltOfRef(txt, final[j]) = CapFor(refs[j].src)

\* Every captioned image of t carries its caption as alt text.
CarriesCaptions(t) ==
    LET refs == find_images_in_markdown(t)
    IN \A j \in 1..Len(refs) :
          CapFor(refs[j].src) # << >> => AltOfRef(t, refs[j]) = CapFor(refs[j].src)

\* The captioned image of reference ref is written in t the way the rewriter
\* writes it: ![C](src) without a title, or a tag whose one alt attribute
\* reads alt="C".
RefInRewrittenForm(t, ref) ==
    LET m == LocateRef(t, ref)
        a == AltSearch(m.tag)
    IN IF ref.kind = "md" THEN Markup(t, m) = MdImage(CapFor(ref.src), ref.src)
       ELSE /\ a # None
            /\ Slice(m.tag, a.start, a.end) = AltAttr(CapFor(ref.src))
            /\ AttrSearch(m.tag, a.end, << "a", "l", "t" >>, 0) = None

\* Every captioned image of t is written the way the rewriter writes it.
InRewrittenForm(t) ==
    LET refs == find_images_in_markdown(t)
    IN \A j \in 1..Len(refs) :
          CapFor(refs[j].src) # << >> => RefInRewrittenForm(t, refs[j])

C10_NoTransientFileLeft == temps = 0

\* Document d has not been read yet in the current run.
NotYetProcessed(d) == pc # "idle" /\ (d > cur \/ (d = cur /\ pc = "read"))

\* C11: wherever an apply-mode batch is stopped, between the backup write and
\* the document write included, every document whose stored content differs
\* from the one it had when the run started has a backup holding that starting
\* content, and every document not yet processed has its starting content and
\* the backup, or absence of a backup, it started with.
C11_TerminationLeavesBackups ==
    apply =>
        \A d \in DocIds :
            /\ store[d] # runStore[d] => baks[d] = runStore[d]
            /\ NotYetProcessed(d) => (store[d] = runStore[d] /\ baks[d] = runBaks[d])

\* An apply-mode batch stands between the backup write and the document write
\* of its first document, the later documents not yet processed.
C11_Witness ==
    /\ apply /\ pc = "write" /\ cur = 1
    /\ baks[1] = runStore[1] /\ store[1] = runStore[1] /\ txt # runStore[1]
    /\ \A d \in DocIds : d > 1 => (NotYetProcessed(d) /\ store[d] = runStore[d] /\ baks[d] = runBaks[d])

\* Reference ref is a match of its syntax at its offset in text t, with its source.
IsMatchOf(t, ref) ==
    IF ref.kind = "md"
    THEN MdMatchAt(t, ref.pos) # None /\ MdMatchAt(t, ref.pos).src = ref.src
    ELSE /\ HtmlMatchAt(t, ref.pos) # None
         /\ SrcSearch(HtmlMatchAt(t, ref.pos).tag) # None
         /\ SrcSearch(HtmlMatchAt(t, ref.pos).tag).val = ref.src

\* Every Markdown image and every <img> tag with a src of text t is in refs.
CoversImages(t, refs) ==
    \A p \in 0..(Len(t) - 1) :
        /\ MdMatchAt(t, p) # None => \E j \in 1..Len(refs) : refs[j].kind = "md" /\ refs[j].pos = p
        /\ (HtmlMatchAt(t, p) # None /\ SrcSearch(HtmlMatchAt(t, p).tag) # None)
               => \E j \in 1..Len(refs) : refs[j].kind = "html" /\ refs[j].pos = p

\* C12 as stated: the references find_images_in_markdown returns for a
\* document are in the order of the positions of their matches in the text.
C12_OrderedByPosition ==
    InFile => \A i, j \in 1..Len(images) : i < j => images[i].pos < images[j].pos

\* C12 amended: find_images_in_markdown returns every Markdown image of the
\* text, in the order of their positions, followed by every <img> tag that has
\* a src, in the order of their positions; each reference carries the offset
\* and the source of its match. Stated of the references process_file has just
\* been given for the text it read.
C12_MarkdownThenHtml ==
    (pc = "loop" /\ k = 1) =>
        /\ \A i, j \in 1..Len(images) :
               i < j => /\ ~(images[i].kind = "html" /\ images[j].kind = "md")
                        /\ images[i].kind = images[j].kind => images[i].pos < images[j].pos
        /\ \A j \in 1..Len(images) : IsMatchOf(startText, images[j])
        /\ CoversImages(startText, images)

\* process_file works on a document in which an <img> tag with a src stands
\* before a Markdown image: the tag comes after the image in the references.
C12_Witness ==
    /\ InFile
    /\ \E i, j \in 1..Len(images) :
          /\ i < j
          /\ images[i].kind = "md" /\ images[j].kind = "html"
          /\ images[j].pos < images[i].pos

\* The path of the name below the first of the directories dirs that holds it
\* in the file system, and below the first of dirs when none does.
FirstHolding(dirs, name) ==
    IF PathIn(dirs[1], name) \in files THEN PathIn(dirs[1], name)
    ELSE IF PathIn(dirs[2], name) \in files THEN PathIn(dirs[2], name)
    ELSE IF Len(dirs) > 2 /\ PathIn(dirs[3], name) \in files THEN PathIn(dirs[3], name)
    ELSE PathIn(dirs[1], name)

\* C13: for a source that is not a URL, its query and fragment cut off,
\* resolve_image_path returns the first existing path among the static-assets
\* root and the working directory when the source is root-relative, among the
\* document's directory, the static-assets root and the working directory when
\* it is relative, and the first of them when none exists; every file
\* process_file passes to a captioning strategy exists.
C13_FirstExistingCandidate ==
    InFile =>
        /\ \A j \in 1..Len(images) :
               LET p == BeforeFirst(BeforeFirst(images[j].src, "?"), "#")
                   r == resolve_image_path(images[j].src, ContentDir, files)
               IN IF StartsWith(p, HttpPrefix) THEN TRUE
                  ELSE IF p[1] = "/" THEN r = FirstHolding(<< "static", "." >>, Tail(p))
                  ELSE r = FirstHolding(<< ContentDir, "static", "." >>, p)
        /\ \A i \in 1..Len(calls) : calls[i].path = TempFile \/ calls[i].path \in files

\* The image of a relative source is not in the document's directory but in
\* the static-assets root and the working directory: the file in the
\* static-assets root went to the captioning strategy.
C13_Witness ==
    /\ InFile /\ k > Len(images)
    /\ Len(images) = 1 /\ images[1].src = << "s" >>
    /\ PathIn(ContentDir, << "s" >>) \notin files
    /\ PathIn("static", << "s" >>) \in files /\ PathIn(".", << "s" >>) \in files
    /\ Len(calls) = 1 /\ calls[1].path = PathIn("static", << "s" >>)

\* The captions of the records of the current run are all empty.
NoCaptionYet ==
    /\ \A j \in 1..Len(allChanges) : allChanges[j].caption = << >>
    /\ InFile => \A j \in 1..Len(changes) : changes[j].caption = << >>

\* C14: throughout a run the backend is the one chosen at its start. With the
\* credential set the local strategy is not built and every captioning call
\* goes to the remote strategy; without it and with a local model that can be
\* built, every call goes to the local strategy; with neither, no captioning
\* call is made, every record has an empty caption, and the report of a
\* finished run is written with empty captions only.
C14_BackendFixedAtStart ==
    /\ pc # "idle" =>
          /\ captionFunc = (~token /\ localAvail)
          /\ InFile => \A i \in 1..Len(calls) :
                           calls[i].via = (IF token THEN "api" ELSE "local")
          /\ (~token /\ ~localAvail) => ((InFile => calls = << >>) /\ NoCaptionYet)
    /\ (pc = "idle" /\ runs > 0 /\ ~token /\ ~localAvail) =>
          (report # None /\ \A j \in 1..Len(report.rows) : report.rows[j].caption = << >>)

\* The credential is set and a local model could be built: an image file has
\* gone to the remote strategy.
C14_Witness ==
    /\ token /\ localAvail /\ InFile
    /\ ~captionFunc
    /\ calls # << >> /\ calls[1].via = "api" /\ calls[1].path \in files

\* C15: a run that has started comes to its end with the report written, its
\* rows the records of the run, whatever the captions; and a report that has
\* been written holds records of every document, so that it was written after
\* process_file returned from the last one.
C15_RunWritesReport ==
    /\ (pc # "idle") ~> (pc = "idle" /\ runs > 0 /\ report = ReportOf(allChanges))
    /\ [](report # None =>
             /\ runs > 0
             /\ \A d \in DocIds : \E j \in 1..Len(report.rows) : report.rows[j].path = d)

\* A run in which no image got a caption other than the placeholder of a
\* failed call, and one did get that, has written its report.
C15_Witness ==
    /\ pc = "idle" /\ runs > 0
    /\ report = ReportOf(allChanges)
    /\ \A j \in 1..Len(allChanges) :
          allChanges[j].caption \in {<< >>, ErrorPlaceholder(ErrorMessage)}
    /\ \E j \in 1..Len(allChanges) : allChanges[j].caption = ErrorPlaceholder(ErrorMessage)

\* The matches in text t of the syntax of reference ref, in text order.
MatchesOfKind(t, ref) == IF ref.kind = "md" THEN MdFindIter(t, 0) ELSE HtmlFindIter(t, 0)

\* The rank reference ref has among the matches of its syntax in the text it
\* was found in.
RankOf(t, ref) ==
    LET ms == MatchesOfKind(t, ref)
    IN Cardinality({j \in 1..Len(ms) : ms[j].start <= ref.pos})

\* C16: in apply mode, the match process_file locates for the k-th reference
\* is that reference in the current text: the match of its syntax that has, in
\* the current text, the rank the reference had in the text read.
C16_LocatesItsOwnReference ==
    (pc = "loop" /\ apply /\ k <= Len(images)) =>
        LET ref == images[k]
            m == LocateRef(txt, ref)
            ms == MatchesOfKind(txt, ref)
            r == RankOf(startText, ref)
        IN m # None /\ r <= Len(ms) /\ m.start = ms[r].start

\* C17: the backup of a document is there exactly when a run has changed the
\* document, and it holds the content the document had at the start of the
\* last run that changed it; between the backup write and the document write
\* it holds the content at the start of the current run. So once two runs in
\* a row have changed a document, the backup holds the content from before
\* the second and no longer the content from before the first.
C17_BackupOfLastChangingRun ==
    /\ \A d \in DocIds :
          IF pc = "write" /\ d = cur THEN baks[d] = runStore[d]
          ELSE baks[d] = changedFrom[d]
    /\ (pc = "idle" /\ lastRun # None) =>
          \A d \in DocIds :
              (lastRun.input[d] # runStore[d] /\ runStore[d] # store[d])
                  => (baks[d] = runStore[d] /\ baks[d] # lastRun.input[d])

\* Two runs in a row have changed the first document: its backup holds the
\* content from before the second run, not the content from before the first.
C17_Witness ==
    /\ pc = "idle" /\ lastRun # None
    /\ lastRun.input[1] # runStore[1] /\ runStore[1] # store[1]
    /\ baks[1] = runStore[1] /\ baks[1] # lastRun.input[1]

\* What stands for the alt text of an image that is not there or has none.
NoAlt == << "no alt text" >>

\* The alt text of the image of syntax kind that starts at offset pos of text
\* t, NoAlt when no image starts there or it has no alt text.
AltAt(t, kind, pos) ==
    IF kind = "md"
    THEN IF MdMatchAt(t, pos) = None THEN NoAlt ELSE MdMatchAt(t, pos).alt
    ELSE IF HtmlMatchAt(t, pos) = None THEN NoAlt
         ELSE IF AltSearch(HtmlMatchAt(t, pos).tag) = None THEN NoAlt
         ELSE AltSearch(HtmlMatchAt(t, pos).tag).val

\* The image process_file is about to handle is located and its captioning
\* call raises.
AtRaisingImage ==
    /\ pc = "loop" /\ k <= Len(images)
    /\ LocateRef(txt, images[k]) # None
    /\ RaisesFor(images[k].src)

\* In apply mode, the step that handles a located image whose captioning call
\* raised records the placeholder as its caption and leaves the located image
\* with the placeholder as its alt text.
RaisingImageStep ==
    (apply /\ AtRaisingImage) =>
        (/\ changes' = Append(changes, [path |-> cur, kind |-> images[k].kind,
                                        src |-> images[k].src,
                                        old_alt |-> OldAlt(images[k], LocateRef(txt, images[k])),
                                        caption |-> ErrorPlaceholder(ErrorMessage)])
         /\ AltAt(txt', images[k].kind, LocateRef(txt, images[k]).start)
                = ErrorPlaceholder(ErrorMessage))

\* A placeholder was recorded for the current document in place of another alt
\* text.
PlaceholderRecorded ==
    \E j \in 1..Len(changes) :
        /\ changes[j].caption = ErrorPlaceholder(ErrorMessage)
        /\ changes[j].old_alt # changes[j].caption

====
